---- MODULE Spec2Model ----
(***************************************************************************)
(* Model of pangolin::VideoViewer (Pangolin/src/tools/video_viewer.cpp):   *)
(* the playback controller state, its lock-guarded control operations and  *)
(* the render loop of VideoViewer::Run, with one render thread and one     *)
(* thread that owns the VideoViewer object and calls its public methods.   *)
(***************************************************************************)
EXTENDS Integers, Sequences, FiniteSets, TLC

VARIABLES
    current_frame,      \* int current_frame, also the pangolin variable "ui.frame"
    grab_until,         \* int grab_until
    video_grab_wait,    \* bool video_grab_wait
    video_grab_newest,  \* bool video_grab_newest
    should_run,         \* bool should_run
    should_quit,        \* pangolin::ShouldQuit(), set by pangolin::QuitAll()
    video_playback,     \* VideoPlaybackInterface*: "null", "cur" (interface of the
                        \* source video holds) or "released" (of a source video let go)
    video_uri,          \* what VideoInput video holds: "none" or the opened source
    video_pos,          \* the source's next-frame read position
    gui_changed,        \* the flag frame.GuiChanged() reads and clears
    slider_shown,       \* frame_slider was added to the display in Run's set-up
    frame_range_hi,     \* frame.Meta().range[1]
    lock,               \* control_mutex: "free" or the thread that holds it
    pc,                 \* where each thread is
    out,                \* the message the latest step printed ("" for none)
    last,               \* the latest control operation and the state it started from
    hist,               \* the opens, skips and grabs so far, kept only by a scenario
    recording,          \* video.IsRecording()
    timelapse,          \* the recorder's every-Nth-frame throttle, 0 while never set
    buffer_size,        \* bytes the frame buffer of Run holds, 0 before it exists
    num_views           \* stream_views.size()

\* The recorder behind video.
recorder == <<recording, timelapse>>

\* The locals of Run that are sized once, in its set-up.
display == <<buffer_size, num_views>>

vars == <<current_frame, grab_until, video_grab_wait, video_grab_newest, should_run,
          should_quit, video_playback, video_uri, video_pos, gui_changed,
          slider_shown, frame_range_hi, lock, pc, out, last, hist, recorder,
          display>>

-----------------------------------------------------------------------------
\* Bounds of the model.

\* Frames in the seekable source "file".
FileFrames == 2

\* Largest |frames| handed to Skip.
MaxSkip == 2

\* The frame counter up to which grabs are let succeed: current_frame is never
\* reset, so reopened sources would count without end.
MaxFrame == 3

\* Frames in the seekable source "clip" of the scenario.
ScenarioFrames == 100

\* The argument of Skip in the scenario.
ScenarioSkip == 10

\* Events of a scenario that hist keeps.
ScenarioLen == 5

\* std::numeric_limits<int>::max(), the free-run value of grab_until.
IntMax == 2147483647

\* record_nth_frame, as the constructor sets it.
RecordNthFrame == 1

-----------------------------------------------------------------------------
\* The collaborators: the frame source behind VideoInput and its playback interface.

Threads == {"render", "caller"}

\* The inputs OpenInput is given: a seekable file, a live device, a device
\* that reports no streams.
Uris == {"file", "live", "empty"}

Min(a, b) == IF a < b THEN a ELSE b

Max(a, b) == IF a > b THEN a ELSE b

Clamp(x, lo, hi) == Max(lo, Min(x, hi))

\* video.Streams().size()
NumStreams(u) == IF u \in {"file", "clip", "live"} THEN 1 ELSE 0

\* video.SizeBytes(), in units of a frame of the file: a live device delivers
\* frames twice as large, and nothing is open under any other name.
SizeBytes(u) ==
    CASE u \in {"file", "clip"} -> 2
      [] u = "live" -> 4
      [] OTHER -> 0

\* FindFirstMatchingVideoInterface<VideoPlaybackInterface>(video) finds one.
HasPlayback(u) == u \in {"file", "clip"}

\* video_playback->GetTotalFrames()
GetTotalFrames(u) == IF u = "clip" THEN ScenarioFrames ELSE FileFrames

\* VideoViewer::TotalFrames() after video_playback took the value pb for source u.
TotalFramesOf(pb, u) == IF pb # "null" THEN GetTotalFrames(u) ELSE IntMax

TotalFrames == TotalFramesOf(video_playback, video_uri)

\* What video_playback->Seek(n) may return: the frame it moved to, clamped to
\* the source's frames; through a pointer to a released source, anything.
SeekOutcomes(n) ==
    IF video_playback = "cur"
    THEN {Clamp(n, 0, GetTotalFrames(video_uri) - 1)}
    ELSE 0 .. FileFrames

\* The read position after Seek returned r.
PosAfterSeek(r) == IF video_playback = "cur" THEN r ELSE video_pos

\* The frame counter up to which source u is let deliver.
FrameCap(u) == IF u = "clip" THEN ScenarioFrames ELSE MaxFrame

\* What video.Grab may return: a file delivers up to its last frame, a live
\* device whenever it has a frame, and nothing delivers without streams.
GrabOutcomes ==
    CASE HasPlayback(video_uri) ->
             IF video_pos < GetTotalFrames(video_uri)
                /\ current_frame < FrameCap(video_uri)
             THEN {TRUE, FALSE} ELSE {FALSE}
      [] video_uri = "live" -> IF current_frame < FrameCap(video_uri)
                               THEN {TRUE, FALSE} ELSE {FALSE}
      [] OTHER -> {FALSE}

\* The record of a step that is no control operation.
NoOp == [op |-> "none", d |-> 0, uri |-> "", cf |-> 0, gu |-> 0, pb |-> "null",
         vuri |-> "none", twice |-> FALSE, gu0 |-> 0, rec |-> FALSE]

\* The record of control operation o, with the state it starts from.
Op(o, d, u) == [op |-> o, d |-> d, uri |-> u, cf |-> current_frame,
                gu |-> grab_until, pb |-> video_playback, vuri |-> video_uri,
                twice |-> FALSE, gu0 |-> 0, rec |-> recording]

\* The record of a TogglePlay: whether it follows another TogglePlay with no
\* step but the return in between, and the bound before that one.
OpToggle == [Op("TogglePlay", 0, "") EXCEPT
                !.twice = (last.op = "TogglePlay"),
                !.gu0 = IF last.op = "TogglePlay" THEN last.gu ELSE 0]

\* The record of a Skip(frames): whether it follows another Skip with no step
\* but the return in between.
OpSkip(frames) == [Op("Skip", frames, "") EXCEPT !.twice = (last.op = "Skip")]

\* The record of the second half of a tick: whether it called Grab, and whether
\* Grab returned true (d = 1).
OpGrab(called, ok) ==
    Op(IF called THEN "Grab" ELSE "NoGrab", IF ok THEN 1 ELSE 0, "")

\* hist with event e added, in a scenario: it keeps ScenarioLen events and one
\* more, which tells that others followed.
Note(e) == hist' = IF hist # <<>> /\ Len(hist) <= ScenarioLen
                   THEN Append(hist, e) ELSE hist

-----------------------------------------------------------------------------
\* The state the member initialisers of the constructor leave.
Members ==
    /\ current_frame = -1
    /\ grab_until = IntMax
    /\ video_grab_wait = TRUE
    /\ video_grab_newest = FALSE
    /\ should_run = TRUE
    /\ should_quit = FALSE
    /\ video_playback = "null"
    /\ video_uri = "none"
    /\ video_pos = 0
    /\ gui_changed = FALSE
    /\ slider_shown = FALSE
    /\ frame_range_hi = 0
    /\ lock = "free"
    /\ pc = [render |-> "unborn", caller |-> "ctor"]
    /\ out = ""
    /\ last = NoOp
    /\ recording = FALSE
    /\ timelapse = 0
    /\ buffer_size = 0
    /\ num_views = 0

Init == Members /\ hist = <<>>

\* Key shortcuts that are dispatched inside the locked block of the tick.
Home_InTick(t) == IF t = "render" THEN "grab" ELSE "idle"

\* Where a thread is when it is in no control operation: the render thread
\* dispatches the key shortcuts in FinishFrame, after the locked block.
Home(t) == IF t = "render" THEN "events" ELSE "idle"

\* A thread calls an operation while the mutex is taken and waits in the
\* constructor of the lock_guard.
Block(t) ==
    /\ pc[t] = Home(t)
    /\ lock # "free"
    /\ pc' = [pc EXCEPT ![t] = "blocked"]
    /\ UNCHANGED <<current_frame, grab_until, video_grab_wait, video_grab_newest,
                   should_run, should_quit, video_playback, video_uri, video_pos,
                   gui_changed, slider_shown, frame_range_hi, lock, out, last, hist,
                   recorder, display>>

\* std::lock_guard<std::mutex> lock(control_mutex) at the head of an operation,
\* at once or after the wait.
Acquire(t) ==
    /\ pc[t] \in {Home(t), "blocked"}
    /\ lock = "free"
    /\ lock' = t
    /\ pc' = [pc EXCEPT ![t] = "in_op"]

\* The lock_guard's destructor as the operation returns.
Return(t) ==
    /\ pc[t] = "in_op"
    /\ lock = t
    /\ lock' = "free"
    /\ pc' = [pc EXCEPT ![t] = Home(t)]
    /\ UNCHANGED <<current_frame, grab_until, video_grab_wait, video_grab_newest,
                   should_run, should_quit, video_playback, video_uri, video_pos,
                   gui_changed, slider_shown, frame_range_hi, out, last, hist,
                   recorder, display>>

\* The body of OpenInput(u), lines 185-209.
OpenInputBody(u) ==
    /\ video_uri' = u
    /\ video_pos' = 0
    /\ Note("open")
    /\ IF NumStreams(u) = 0
       THEN /\ out' = "No video streams from device."
            /\ video_playback' = IF video_playback = "null" THEN "null" ELSE "released"
            /\ UNCHANGED <<grab_until, frame_range_hi>>
       ELSE /\ out' = ""
            /\ video_playback' = IF HasPlayback(u) THEN "cur" ELSE "null"
            /\ grab_until' = IF TotalFramesOf(video_playback', u) < IntMax
                             THEN 0 ELSE grab_until
            /\ frame_range_hi' = TotalFramesOf(video_playback', u) - 1
    /\ UNCHANGED <<current_frame, video_grab_wait, video_grab_newest, should_run,
                   should_quit, gui_changed, slider_shown, recorder, display>>

\* VideoViewer::VideoViewer: OpenInput(input_uri) unless input_uri is empty, then
\* the render thread is started.
Construct(input_uri) ==
    /\ pc["caller"] = "ctor"
    /\ IF input_uri # ""
       THEN OpenInputBody(input_uri) /\ last' = Op("OpenInput", 0, input_uri)
       ELSE /\ last' = NoOp
            /\ UNCHANGED <<current_frame, grab_until, video_grab_wait,
                           video_grab_newest, should_run, should_quit,
                           video_playback, video_uri, video_pos, gui_changed,
                           slider_shown, frame_range_hi, out, hist>>
    /\ pc' = [render |-> "setup", caller |-> "idle"]
    /\ UNCHANGED <<lock, recorder, display>>

\* VideoViewer::OpenInput
OpenInput(t, u) ==
    /\ Acquire(t)
    /\ OpenInputBody(u)
    /\ last' = Op("OpenInput", 0, u)

\* VideoViewer::CloseInput
CloseInput(t) ==
    /\ Acquire(t)
    /\ video_uri' = "none"
    /\ video_pos' = 0
    /\ video_playback' = IF video_playback = "null" THEN "null" ELSE "released"
    /\ out' = ""
    /\ last' = Op("CloseInput", 0, "")
    /\ UNCHANGED <<current_frame, grab_until, video_grab_wait, video_grab_newest,
                   should_run, should_quit, gui_changed, slider_shown,
                   frame_range_hi, hist, recorder, display>>

\* TogglePlay that also pauses when current_frame has reached grab_until.
TogglePlayValue_AtOrBefore(cf, gu) == IF cf <= gu THEN cf ELSE IntMax

\* The value TogglePlay gives grab_until, line 241.
TogglePlayValue(cf, gu) == IF cf < gu THEN cf ELSE IntMax

\* VideoViewer::TogglePlay
TogglePlay(t) ==
    /\ Acquire(t)
    /\ grab_until' = TogglePlayValue(current_frame, grab_until)
    /\ out' = ""
    /\ last' = OpToggle
    /\ UNCHANGED <<current_frame, video_grab_wait, video_grab_newest, should_run,
                   should_quit, video_playback, video_uri, video_pos, gui_changed,
                   slider_shown, frame_range_hi, hist, recorder, display>>

\* VideoViewer::ToggleDiscardBufferedFrames
ToggleDiscardBufferedFrames(t) ==
    /\ Acquire(t)
    /\ video_grab_newest' = ~video_grab_newest
    /\ out' = IF video_grab_newest' THEN "Discarding old frames."
                                    ELSE "Not discarding old frames."
    /\ last' = NoOp
    /\ UNCHANGED <<current_frame, grab_until, video_grab_wait, should_run,
                   should_quit, video_playback, video_uri, video_pos, gui_changed,
                   slider_shown, frame_range_hi, hist, recorder, display>>

\* VideoViewer::ToggleWaitForFrames
ToggleWaitForFrames(t) ==
    /\ Acquire(t)
    /\ video_grab_wait' = ~video_grab_wait
    /\ out' = IF video_grab_wait' THEN "Gui wait's for video frame."
                                  ELSE "Gui doesn't wait for video frame."
    /\ last' = NoOp
    /\ UNCHANGED <<current_frame, grab_until, video_grab_newest, should_run,
                   should_quit, video_playback, video_uri, video_pos, gui_changed,
                   slider_shown, frame_range_hi, hist, recorder, display>>

\* VideoViewer::Record
Record(t) ==
    /\ Acquire(t)
    /\ recording' = TRUE
    /\ out' = ""
    /\ last' = Op("Record", 0, "")
    /\ UNCHANGED <<current_frame, grab_until, video_grab_wait, video_grab_newest,
                   should_run, should_quit, video_playback, video_uri, video_pos,
                   gui_changed, slider_shown, frame_range_hi, hist, timelapse,
                   display>>

\* VideoViewer::RecordOneFrame: the request for one frame lies with the recorder
\* and is no part of the state kept here.
RecordOneFrame(t) ==
    /\ Acquire(t)
    /\ out' = ""
    /\ last' = Op("RecordOneFrame", 0, "")
    /\ UNCHANGED <<current_frame, grab_until, video_grab_wait, video_grab_newest,
                   should_run, should_quit, video_playback, video_uri, video_pos,
                   gui_changed, slider_shown, frame_range_hi, hist, recorder,
                   display>>

\* VideoViewer::StopRecording
StopRecording(t) ==
    /\ Acquire(t)
    /\ recording' = FALSE
    /\ out' = ""
    /\ last' = Op("StopRecording", 0, "")
    /\ UNCHANGED <<current_frame, grab_until, video_grab_wait, video_grab_newest,
                   should_run, should_quit, video_playback, video_uri, video_pos,
                   gui_changed, slider_shown, frame_range_hi, hist, timelapse,
                   display>>

\* ToggleRecord that starts the recorder with the throttle it had.
ThrottleAtStart_Kept(old) == old

\* The throttle ToggleRecord gives the recorder before it starts it, line 248.
ThrottleAtStart(old) == RecordNthFrame

\* VideoViewer::ToggleRecord
ToggleRecord(t) ==
    /\ Acquire(t)
    /\ IF ~recording
       THEN /\ timelapse' = ThrottleAtStart(timelapse)
            /\ recording' = TRUE
            /\ out' = "Started Recording."
       ELSE /\ recording' = FALSE
            /\ out' = "Finished recording."
            /\ UNCHANGED timelapse
    /\ last' = Op("ToggleRecord", 0, "")
    /\ UNCHANGED <<current_frame, grab_until, video_grab_wait, video_grab_newest,
                   should_run, should_quit, video_playback, video_uri, video_pos,
                   gui_changed, slider_shown, frame_range_hi, hist, display>>

\* The frame counter set to the frame Seek returned, without the - 1.
FrameAfterSeek_Same(r) == r

\* The frame counter after Seek returned r: lines 146 and 285.
FrameAfterSeek(r) == r - 1

\* A bound that lets two grabs through.
ArmOne_Two(frame) == frame + 2

\* A bound that lets no grab through.
ArmOne_None(frame) == frame

\* The bound that arms one grab: lines 148 and 286.
ArmOne(frame) == frame + 1

\* Skip without the test of the sign of frames.
SkipAllowed_Always(frames) == TRUE

\* Whether Skip(frames) on a source without playback interface is let through,
\* line 288.
SkipAllowed(frames) == frames >= 0

\* A bound one frame further on.
SkipBound_OneMore(cf, frames) == cf + frames + 1

\* A bound that adds the frames to the grabs still armed.
SkipBound_Stacked(cf, frames) ==
    IF cf < grab_until /\ grab_until < IntMax THEN grab_until + frames
                                              ELSE cf + frames

\* The bound it then sets, line 289.
SkipBound(cf, frames) == cf + frames

\* The arguments Skip is given.
SkipArgs == (0 - MaxSkip) .. MaxSkip

\* VideoViewer::Skip
Skip(t, frames) ==
    /\ Acquire(t)
    /\ IF video_playback # "null"
       THEN \E r \in SeekOutcomes(current_frame + frames) :
               /\ current_frame' = FrameAfterSeek(r)
               /\ grab_until' = ArmOne(current_frame')
               /\ video_pos' = PosAfterSeek(r)
               /\ out' = ""
       ELSE /\ IF SkipAllowed(frames)
               THEN grab_until' = SkipBound(current_frame, frames) /\ out' = ""
               ELSE out' = "Unable to skip backward." /\ UNCHANGED grab_until
            /\ UNCHANGED <<current_frame, video_pos>>
    /\ last' = OpSkip(frames)
    /\ Note("skip")
    /\ UNCHANGED <<video_grab_wait, video_grab_newest, should_run, should_quit,
                   video_playback, video_uri, gui_changed, slider_shown,
                   frame_range_hi, recorder, display>>

\* VideoViewer::Quit, which takes no lock.
Quit ==
    /\ pc["caller"] = "idle"
    /\ should_run' = FALSE
    /\ out' = ""
    /\ last' = NoOp
    /\ UNCHANGED <<current_frame, grab_until, video_grab_wait, video_grab_newest,
                   should_quit, video_playback, video_uri, video_pos, gui_changed,
                   slider_shown, frame_range_hi, lock, pc, hist, recorder, display>>

\* VideoViewer::~VideoViewer up to the join: Quit(), then vv_thread.join().
Destroy ==
    /\ pc["caller"] = "idle"
    /\ should_run' = FALSE
    /\ pc' = [pc EXCEPT !["caller"] = "join_dtor"]
    /\ out' = ""
    /\ last' = NoOp
    /\ UNCHANGED <<current_frame, grab_until, video_grab_wait, video_grab_newest,
                   should_quit, video_playback, video_uri, video_pos, gui_changed,
                   slider_shown, frame_range_hi, lock, hist, recorder, display>>

\* VideoViewer::WaitUntilExit up to the join.
WaitUntilExit ==
    /\ pc["caller"] = "idle"
    /\ pc' = [pc EXCEPT !["caller"] = "join_wait"]
    /\ out' = ""
    /\ last' = NoOp
    /\ UNCHANGED <<current_frame, grab_until, video_grab_wait, video_grab_newest,
                   should_run, should_quit, video_playback, video_uri, video_pos,
                   gui_changed, slider_shown, frame_range_hi, lock, hist,
                   recorder, display>>

\* vv_thread.join() returns once Run has returned.
JoinReturn ==
    /\ pc["caller"] \in {"join_dtor", "join_wait"}
    /\ pc["render"] = "done"
    /\ pc' = [pc EXCEPT !["caller"] = IF pc["caller"] = "join_dtor"
                                      THEN "destroyed" ELSE "idle"]
    /\ out' = ""
    /\ last' = NoOp
    /\ UNCHANGED <<current_frame, grab_until, video_grab_wait, video_grab_newest,
                   should_run, should_quit, video_playback, video_uri, video_pos,
                   gui_changed, slider_shown, frame_range_hi, lock, hist,
                   recorder, display>>

\* videoviewer_signal_quit on SIGINT or SIGTERM: pangolin::QuitAll().
Signal ==
    /\ pc["caller"] # "ctor"
    /\ ~should_quit
    /\ should_quit' = TRUE
    /\ out' = "Caught signal. Program will exit after any IO is complete."
    /\ last' = NoOp
    /\ UNCHANGED <<current_frame, grab_until, video_grab_wait, video_grab_newest,
                   should_run, video_playback, video_uri, video_pos, gui_changed,
                   slider_shown, frame_range_hi, lock, pc, hist, recorder, display>>

-----------------------------------------------------------------------------
\* The render thread, VideoViewer::Run.

\* Whether Run's set-up may add the slider, line 78. TotalFrames() through a
\* pointer to a released source reads anything.
SliderChoices ==
    CASE video_playback = "null" -> {FALSE}
      [] video_playback = "cur" -> {TotalFrames < IntMax}
      [] OTHER -> {TRUE, FALSE}

\* Lines 63-133: the buffer, the window, the slider, the views, the shortcuts.
RunSetup ==
    /\ pc["render"] = "setup"
    /\ buffer_size' = SizeBytes(video_uri) + 1
    /\ slider_shown' \in SliderChoices
    /\ num_views' = NumStreams(video_uri)
    /\ pc' = [pc EXCEPT !["render"] = "test"]
    /\ out' = ""
    /\ last' = NoOp
    /\ UNCHANGED <<current_frame, grab_until, video_grab_wait, video_grab_newest,
                   should_run, should_quit, video_playback, video_uri, video_pos,
                   gui_changed, frame_range_hi, lock, hist, recorder>>

\* A loop condition that looks at pangolin::ShouldQuit() alone.
KeepRunning_QuitOnly == ~should_quit

\* The loop condition, line 136.
KeepRunning == should_run /\ ~should_quit

\* while(should_run && !pangolin::ShouldQuit()), and DestroyWindow after the loop.
LoopTest ==
    /\ pc["render"] = "test"
    /\ pc' = [pc EXCEPT !["render"] = IF KeepRunning THEN "wait_lock" ELSE "done"]
    /\ out' = ""
    /\ last' = NoOp
    /\ UNCHANGED <<current_frame, grab_until, video_grab_wait, video_grab_newest,
                   should_run, should_quit, video_playback, video_uri, video_pos,
                   gui_changed, slider_shown, frame_range_hi, lock, hist,
                   recorder, display>>

\* Lines 142-149: the tick takes the lock and serves a slider change.
TickLock ==
    /\ pc["render"] = "wait_lock"
    /\ lock = "free"
    /\ lock' = "render"
    /\ pc' = [pc EXCEPT !["render"] = "grab"]
    /\ gui_changed' = FALSE
    /\ IF gui_changed
       THEN /\ IF video_playback # "null"
               THEN \E r \in SeekOutcomes(current_frame) :
                       /\ current_frame' = FrameAfterSeek(r)
                       /\ video_pos' = PosAfterSeek(r)
               ELSE UNCHANGED <<current_frame, video_pos>>
            /\ grab_until' = ArmOne(current_frame')
       ELSE UNCHANGED <<current_frame, video_pos, grab_until>>
    /\ out' = ""
    /\ last' = NoOp
    /\ UNCHANGED <<video_grab_wait, video_grab_newest, should_run, should_quit,
                   video_playback, video_uri, slider_shown, frame_range_hi, hist,
                   recorder, display>>

\* A tick that also grabs when the frame counter has reached the bound.
GrabWanted_AtOrBefore(frame, gu) == frame <= gu

\* Whether the tick calls Grab, line 151.
GrabWanted(frame, gu) == frame < gu

\* A grab that counts two frames.
NextFrame_Two(frame) == frame + 2

\* The frame counter after a grab that returned true, line 152.
NextFrame(frame) == frame + 1

\* Lines 151-159: the grab, and the lock is released.
TickGrab ==
    /\ pc["render"] = "grab"
    /\ lock = "render"
    /\ lock' = "free"
    /\ pc' = [pc EXCEPT !["render"] = "events"]
    /\ IF GrabWanted(current_frame, grab_until)
       THEN \E ok \in GrabOutcomes :
               /\ last' = OpGrab(TRUE, ok)
               /\ IF ok
                  THEN /\ current_frame' = NextFrame(current_frame)
                       /\ video_pos' = IF HasPlayback(video_uri) THEN video_pos + 1
                                                                 ELSE video_pos
                       /\ Note("grab")
                  ELSE UNCHANGED <<current_frame, video_pos, hist>>
       ELSE /\ last' = OpGrab(FALSE, FALSE)
            /\ UNCHANGED <<current_frame, video_pos, hist>>
    /\ out' = ""
    /\ UNCHANGED <<grab_until, video_grab_wait, video_grab_newest, should_run,
                   should_quit, video_playback, video_uri, gui_changed,
                   slider_shown, frame_range_hi, recorder, display>>

\* The values the slider can be dragged to.
SliderValues == 0 .. Min(frame_range_hi, MaxFrame)

\* The user drags frame_slider during FinishFrame: the slider writes "ui.frame",
\* which is current_frame, and marks it changed by the GUI.
SliderMove(v) ==
    /\ pc["render"] = "events"
    /\ slider_shown
    /\ current_frame' = v
    /\ gui_changed' = TRUE
    /\ out' = ""
    /\ last' = NoOp
    /\ UNCHANGED <<grab_until, video_grab_wait, video_grab_newest, should_run,
                   should_quit, video_playback, video_uri, video_pos, slider_shown,
                   frame_range_hi, lock, pc, hist, recorder, display>>

\* pangolin::FinishFrame returns, lines 162-163.
FinishFrame ==
    /\ pc["render"] = "events"
    /\ pc' = [pc EXCEPT !["render"] = "test"]
    /\ out' = ""
    /\ last' = NoOp
    /\ UNCHANGED <<current_frame, grab_until, video_grab_wait, video_grab_newest,
                   should_run, should_quit, video_playback, video_uri, video_pos,
                   gui_changed, slider_shown, frame_range_hi, lock, hist,
                   recorder, display>>

-----------------------------------------------------------------------------
\* The steps of the controller and the render loop while nothing asks them to stop.
ControlNext ==
    \/ \E input_uri \in Uris \cup {""} : Construct(input_uri)
    \/ \E u \in Uris : OpenInput("caller", u)
    \/ CloseInput("caller")
    \/ \E t \in Threads : TogglePlay(t)
    \/ \E t \in Threads, frames \in SkipArgs : Skip(t, frames)
    \/ \E t \in Threads : Return(t)
    \/ RunSetup
    \/ LoopTest
    \/ TickLock
    \/ TickGrab
    \/ \E v \in SliderValues : SliderMove(v)
    \/ FinishFrame

\* The toggles of the two flags video.Grab is given.
FlagNext ==
    \/ \E t \in Threads : ToggleDiscardBufferedFrames(t)
    \/ \E t \in Threads : ToggleWaitForFrames(t)

\* The steps that ask the render loop to stop, and the joins.
StopNext ==
    \/ Quit
    \/ Destroy
    \/ WaitUntilExit
    \/ JoinReturn
    \/ Signal

\* The operations on the recorder.
RecorderNext ==
    \/ \E t \in Threads : ToggleRecord(t)
    \/ \E t \in Threads : RecordOneFrame(t)
    \/ Record("caller")
    \/ StopRecording("caller")

Next == ControlNext \/ FlagNext \/ StopNext \/ RecorderNext

Spec == Init /\ [][Next]_vars

\* The controller driven by a caller that never asks it to stop and leaves the
\* flags of Grab alone.
ControlSpec == Init /\ [][ControlNext]_vars

\* The same with the flags of Grab toggled as well.
ReopenSpec == Init /\ [][ControlNext \/ FlagNext]_vars

\* The scenario of the 100-frame file: the viewer is constructed on "clip", the
\* caller skips forward by ScenarioSkip, the render loop ticks; hist keeps the
\* open, the skips and the successful grabs.
ScenarioInit == Members /\ hist = <<"new">>

ScenarioNext ==
    \/ Construct("clip")
    \/ Skip("caller", ScenarioSkip)
    \/ Return("caller")
    \/ RunSetup
    \/ LoopTest
    \/ TickLock
    \/ TickGrab
    \/ FinishFrame

ScenarioSpec == ScenarioInit /\ [][ScenarioNext]_vars

\* Recording: a viewer on a file or a live device, a caller and a user who start
\* and stop the recorder and toggle play while the render loop ticks.
RecordNext ==
    \/ \E input_uri \in {"file", "live"} : Construct(input_uri)
    \/ RecorderNext
    \/ \E t \in Threads : TogglePlay(t)
    \/ \E t \in Threads : Return(t)
    \/ RunSetup
    \/ LoopTest
    \/ TickLock
    \/ TickGrab
    \/ FinishFrame

RecordSpec == Init /\ [][RecordNext]_vars

\* Playback of one file: the viewer is constructed on it and it is never closed
\* or replaced; a caller and a user toggle play, skip and drag the slider while
\* the render loop ticks.
PlaybackNext ==
    \/ Construct("file")
    \/ \E t \in Threads : TogglePlay(t)
    \/ \E t \in Threads, frames \in SkipArgs : Skip(t, frames)
    \/ \E t \in Threads : Return(t)
    \/ RunSetup
    \/ LoopTest
    \/ TickLock
    \/ TickGrab
    \/ \E v \in SliderValues : SliderMove(v)
    \/ FinishFrame

PlaybackSpec == Init /\ [][PlaybackNext]_vars

\* The operations LockSpec lets thread t call.
Operation(t) == TogglePlay(t) \/ Skip(t, 1)

\* A waiting thread gets the mutex and runs its operation.
Unblock(t) == pc[t] = "blocked" /\ Operation(t)

\* The mutex: a viewer on a file or a live device, a caller and a user who
\* toggle, skip and drag the slider, at once or after waiting for the mutex,
\* while the render loop ticks without end. Each thread keeps running, the
\* mutex is handed to a thread that keeps asking for it, Seek and Grab return.
LockNext ==
    \/ \E input_uri \in {"file", "live"} : Construct(input_uri)
    \/ \E t \in Threads : Block(t)
    \/ \E t \in Threads : Operation(t)
    \/ \E t \in Threads : Return(t)
    \/ RunSetup
    \/ LoopTest
    \/ TickLock
    \/ TickGrab
    \/ \E v \in SliderValues : SliderMove(v)
    \/ FinishFrame

LockSpec ==
    /\ Init
    /\ [][LockNext]_vars
    /\ WF_vars(RunSetup)
    /\ WF_vars(LoopTest)
    /\ SF_vars(TickLock)
    /\ WF_vars(TickGrab)
    /\ \A t \in Threads : SF_vars(Unblock(t))
    /\ \A t \in Threads : WF_vars(Return(t))

\* Shutdown: a viewer on a file, a live device or nothing, a caller and a user
\* who toggle, skip and drag the slider, and every way of asking the loop to
\* stop. Each thread keeps running, the mutex is handed to a thread that keeps
\* asking for it, Grab and FinishFrame return.
ShutdownNext ==
    \/ \E input_uri \in {"file", "live", ""} : Construct(input_uri)
    \/ \E t \in Threads : TogglePlay(t)
    \/ \E t \in Threads : Skip(t, 1)
    \/ \E t \in Threads : Return(t)
    \/ RunSetup
    \/ LoopTest
    \/ TickLock
    \/ TickGrab
    \/ \E v \in SliderValues : SliderMove(v)
    \/ FinishFrame
    \/ StopNext

ShutdownSpec ==
    /\ Init
    /\ [][ShutdownNext]_vars
    /\ WF_vars(RunSetup)
    /\ WF_vars(LoopTest)
    /\ SF_vars(TickLock)
    /\ WF_vars(TickGrab)
    /\ SF_vars(FinishFrame)
    /\ \A t \in Threads : WF_vars(Return(t))
    /\ WF_vars(JoinReturn)

-----------------------------------------------------------------------------
\* The claims about the control operations, checked under ControlSpec.

\* A seekable source is bound: video holds a source with a playback interface
\* and video_playback points to it.
SeekableBound == HasPlayback(video_uri) /\ video_playback = "cur"

\* A source without playback interface is bound.
NonSeekableBound == video_uri = "live" /\ video_playback = "null"

\* The frame Skip(last.d) asks the source of TotalFrames frames for.
SkipTarget == Clamp(last.cf + last.d, 0, TotalFrames - 1)

\* C1 as stated: on a seekable source, right after Skip(d) current_frame is
\* clamp(previous current_frame + d, 0, total_frames - 1) and one grab is armed.
C1_SkipLandsOnTarget ==
    (last.op = "Skip" /\ SeekableBound)
        => /\ current_frame = SkipTarget
           /\ grab_until = current_frame + 1

\* C1 amended: on a seekable source, right after Skip(d) current_frame is one
\* less than clamp(previous current_frame + d, 0, total_frames - 1), the source
\* reads that frame next, and one grab is armed.
C1_SkipLandsBeforeTarget ==
    (last.op = "Skip" /\ SeekableBound)
        => /\ current_frame = SkipTarget - 1
           /\ video_pos = SkipTarget
           /\ grab_until = current_frame + 1

\* C1 witnesses: a Skip that the clamp cut short at the last frame.
C1_Witness ==
    /\ last.op = "Skip"
    /\ SeekableBound
    /\ last.cf + last.d > TotalFrames - 1
    /\ current_frame = TotalFrames - 2

\* C2 as stated: two TogglePlay calls in a row restore grab_until, from every
\* state.
C2_TogglePairRestores ==
    (last.op = "TogglePlay" /\ last.twice) => grab_until = last.gu0

\* C2 amended: two TogglePlay calls in a row, with no other step changing
\* current_frame in between, restore grab_until when it was the unbounded value
\* or equal to current_frame before the first call.
C2_TogglePairRestoresFromPauseOrPlay ==
    (/\ last.op = "TogglePlay"
     /\ last.twice
     /\ last.gu0 \in {current_frame, IntMax})
        => grab_until = last.gu0

\* C2 witness: a pair of calls that started paused at the frame counter, after
\* a grab.
C2_Witness ==
    /\ last.op = "TogglePlay"
    /\ last.twice
    /\ last.gu0 = current_frame
    /\ current_frame >= 0
    /\ grab_until = current_frame

\* The two histories of the scenario: the skip before any grab, and after the
\* first tick's grab.
SkipFirst == <<"new", "open", "skip", "grab">>

TickFirst == <<"new", "open", "grab", "skip", "grab">>

\* C3 as stated: on the file of ScenarioFrames frames, Skip(ScenarioSkip) and
\* the next successful grab give current_frame = ScenarioSkip - 1 and
\* grab_until = ScenarioSkip, whether or not a tick grabbed before the Skip.
C3_SkipThenGrab ==
    hist \in {SkipFirst, TickFirst}
        => current_frame = ScenarioSkip - 1 /\ grab_until = ScenarioSkip

\* C3 amended: they give current_frame = grab_until = ScenarioSkip - 1 when no
\* grab succeeded before the Skip, and current_frame = grab_until = ScenarioSkip
\* when the first tick's grab did.
C3_SkipThenGrabPauses ==
    /\ hist = SkipFirst
          => current_frame = ScenarioSkip - 1 /\ grab_until = ScenarioSkip - 1
    /\ hist = TickFirst
          => current_frame = ScenarioSkip /\ grab_until = ScenarioSkip

\* C3 witness: the skip after the first tick's grab, and the grab it armed.
C3_Witness == hist = TickFirst /\ video_uri = "clip" /\ video_pos = ScenarioSkip + 1

\* C4 as stated: grab_until is never negative.
C4_GrabUntilNonNegative == grab_until >= 0

\* C5: Skip(d) with d < 0 on a source without playback interface prints the
\* warning and leaves grab_until and current_frame as they were.
C5_BackwardSkipRejected ==
    (last.op = "Skip" /\ last.d < 0 /\ NonSeekableBound)
        => /\ out = "Unable to skip backward."
           /\ grab_until = last.gu
           /\ current_frame = last.cf

\* C5 witness: a backward Skip on a live source that had a bounded grab_until.
C5_Witness ==
    /\ last.op = "Skip"
    /\ last.d < 0
    /\ NonSeekableBound
    /\ last.gu < IntMax
    /\ last.gu # last.cf + last.d

\* The bound a freshly constructed controller has after opening source u.
FreshBound(u) == IF HasPlayback(u) THEN 0 ELSE IntMax

\* A successful OpenInput was the latest operation.
Opened == last.op = "OpenInput" /\ NumStreams(last.uri) > 0

\* C6 as stated: after a successful OpenInput grab_until is 0 for a seekable
\* source and the unbounded value for any other, whatever the state before.
C6_OpenSetsBound == Opened => grab_until = FreshBound(last.uri)

\* C7 as stated: OpenInput on a source without streams leaves no source bound,
\* neither in video nor in video_playback, and current_frame and grab_until
\* unchanged.
C7_NoStreamsLeavesIdle ==
    (last.op = "OpenInput" /\ NumStreams(last.uri) = 0)
        => /\ NumStreams(video_uri) = 0
           /\ video_playback = "null"
           /\ current_frame = last.cf
           /\ grab_until = last.gu

\* C8 as stated: a successful OpenInput that replaces a source whose frame
\* counter had left -1 puts the playback state back to that of a fresh
\* controller.
C8_OpenResetsState ==
    (Opened /\ last.vuri # "none" /\ last.cf >= 0)
        => /\ current_frame = -1
           /\ video_grab_wait
           /\ ~video_grab_newest
           /\ grab_until = FreshBound(last.uri)

-----------------------------------------------------------------------------
\* The claims about the lock and the shutdown, checked under ShutdownSpec.

\* The state control_mutex is there to guard.
Guarded == <<current_frame, grab_until, video_grab_wait, video_grab_newest,
             video_playback, video_uri, video_pos, should_run>>

\* C9 as stated: once the render thread runs, every step that writes guarded
\* state is part of a section that holds control_mutex. A step of such a section
\* takes or releases the mutex (an operation takes it as it starts, the tick
\* takes it before the seek and releases it after the grab).
C9_WritesHoldLock ==
    [][(pc["caller"] # "ctor" /\ Guarded' # Guarded) => lock' # lock]_vars

\* A stop was requested: Quit(), the destructor or a signal.
StopRequested == ~should_run \/ should_quit

\* C10: the loop exits only after a stop was requested; once one was requested
\* the loop condition never lets another iteration start, so only the iteration
\* under way completes; then Run returns and the destructor's join with it.
C10_StopsAfterCurrentTick ==
    /\ [](pc["render"] = "done" => StopRequested)
    /\ [][(StopRequested /\ pc["render"] = "test")
            => pc'["render"] \in {"test", "done"}]_vars
    /\ (StopRequested ~> pc["render"] = "done")
    /\ (pc["caller"] = "join_dtor" ~> pc["caller"] = "destroyed")

\* C10 witness: the destructor asked a loop that had grabbed frames to stop, the
\* loop ended and the join returned.
C10_Witness ==
    /\ pc["caller"] = "destroyed"
    /\ pc["render"] = "done"
    /\ ~should_run
    /\ ~should_quit
    /\ current_frame >= 0

-----------------------------------------------------------------------------
\* C11: a ToggleRecord that finds the recorder stopped gives it the configured
\* throttle and starts it, one that finds it recording stops it; either way
\* IsRecording() is afterwards the negation of what it was, and current_frame
\* and grab_until are what they were.
C11_ToggleRecordAlternates ==
    last.op = "ToggleRecord" =>
        /\ recording = ~last.rec
        /\ recording => timelapse = RecordNthFrame /\ out = "Started Recording."
        /\ ~recording => out = "Finished recording."
        /\ current_frame = last.cf
        /\ grab_until = last.gu

\* A ToggleRecord has started the recorder on a viewer that has grabbed a frame.
C11_Witness ==
    /\ last.op = "ToggleRecord"
    /\ ~last.rec
    /\ recording
    /\ current_frame >= 0

-----------------------------------------------------------------------------
\* What the second half of a tick did, against the state it started from.
GrabRule ==
    /\ last.op = "Grab" =>
          /\ last.cf < last.gu
          /\ current_frame = last.cf + last.d
          /\ grab_until = last.gu
    /\ last.op = "NoGrab" =>
          /\ last.cf >= last.gu
          /\ current_frame = last.cf
          /\ grab_until = last.gu

\* current_frame has reached grab_until.
Paused == current_frame >= grab_until

\* A step of the render loop: a whole tick is the four of them.
TickStep == LoopTest \/ TickLock \/ TickGrab \/ FinishFrame

\* C12: the second half of a tick calls Grab exactly when current_frame <
\* grab_until, as they are after the slider was served; a grab that returns true
\* raises current_frame by one, a grab that fails or is not made leaves it, and
\* none of them writes grab_until; so while the viewer is paused and no slider
\* change is pending, no step of a tick changes current_frame or grab_until.
C12_TickGrabsBelowBound ==
    /\ []GrabRule
    /\ [][Paused /\ ~gui_changed /\ TickStep
             => UNCHANGED <<current_frame, grab_until>>]_vars

\* A grab on a file has taken current_frame to grab_until, and the tick after it
\* has found the viewer paused and has not grabbed.
C12_Witness ==
    /\ last.op = "NoGrab"
    /\ video_uri = "file"
    /\ current_frame = grab_until
    /\ current_frame >= 0

-----------------------------------------------------------------------------
\* Exactly one grab is armed.
SteppingOne == grab_until = current_frame + 1

\* A Skip on the bound seekable source has armed one grab; a grab that started
\* with one grab armed has paused the viewer if it returned true and has left
\* the one grab armed if it failed.
StepRule ==
    /\ last.op = "Skip" /\ last.pb = "cur" => SteppingOne
    /\ last.op = "Grab" /\ last.gu = last.cf + 1 =>
          IF last.d = 1 THEN current_frame = grab_until ELSE SteppingOne

\* The steps that arm grabs: Skip, TogglePlay, a drag of the slider and the seek
\* that serves it.
ArmingStep ==
    \/ \E t \in Threads, frames \in SkipArgs : Skip(t, frames)
    \/ \E t \in Threads : TogglePlay(t)
    \/ \E v \in SliderValues : SliderMove(v)
    \/ TickLock /\ gui_changed

\* C13: on a seekable source a Skip, and the seek that serves the slider, arm one
\* grab (grab_until = current_frame + 1); the next grab that returns true
\* leaves the viewer paused with current_frame = grab_until, a grab that fails
\* leaves the one grab armed; and a viewer paused after a grab stays paused, so
\* that no tick grabs, until a Skip, a slider seek or a TogglePlay.
C13_SteppingOneIsTransient ==
    /\ []StepRule
    /\ [][TickLock /\ gui_changed /\ video_playback = "cur" => SteppingOne']_vars
    /\ [][Paused /\ current_frame >= 0 /\ ~Paused' => ArmingStep]_vars

\* The one grab a Skip or a slider seek armed on the file has returned true and
\* the viewer is paused.
C13_Witness ==
    /\ last.op = "Grab"
    /\ last.d = 1
    /\ last.pb = "cur"
    /\ last.cf >= 0
    /\ last.gu = last.cf + 1
    /\ Paused

-----------------------------------------------------------------------------
\* Bound gu extended by d, the unbounded value staying unbounded.
Extended(gu, d) == IF gu = IntMax THEN IntMax ELSE gu + d

\* C14 as stated: on a source without playback interface, Skip(d) with d > 0
\* makes grab_until its old value plus d, from every state.
C14_SkipExtendsBound ==
    (last.op = "Skip" /\ last.d > 0 /\ NonSeekableBound)
        => grab_until = Extended(last.gu, last.d)

\* C14 amended: on a source without playback interface, Skip(d) with d > 0
\* makes grab_until the unchanged current_frame plus d, whatever it was: d grabs
\* are let through from the call on, and the bound is the old one plus d only
\* when the old one was current_frame.
C14_SkipBoundsFromFrame ==
    (last.op = "Skip" /\ last.d > 0 /\ NonSeekableBound)
        => /\ grab_until = last.cf + last.d
           /\ current_frame = last.cf
           /\ grab_until - current_frame = last.d
           /\ (grab_until = Extended(last.gu, last.d)) <=> (last.gu = last.cf)

\* A forward Skip has bounded a live viewer that ran free.
C14_Witness ==
    /\ last.op = "Skip"
    /\ last.d > 0
    /\ NonSeekableBound
    /\ last.gu = IntMax
    /\ last.cf >= 0
    /\ grab_until = current_frame + last.d

-----------------------------------------------------------------------------
\* The grabs Skip(last.d) arms when it is called alone: one through a playback
\* interface, last.d without.
ArmedByLast == IF last.pb # "null" THEN 1 ELSE last.d

\* C15: after one Skip or several in a row with no tick in between, with
\* non-negative arguments where there is no playback interface, grab_until -
\* current_frame is what the last call arms alone, whatever the calls before
\* it had armed.
C15_SkipRearms ==
    (last.op = "Skip" /\ (last.pb # "null" \/ last.d >= 0))
        => grab_until - current_frame = ArmedByLast

\* A Skip(1) on a live source right after a Skip that had armed grabs: one
\* grab is armed, not the sum.
C15_Witness ==
    /\ last.op = "Skip"
    /\ last.twice
    /\ NonSeekableBound
    /\ last.d = 1
    /\ last.cf < last.gu
    /\ last.gu < IntMax
    /\ grab_until = current_frame + 1

-----------------------------------------------------------------------------
\* C16: at every call of Grab the buffer holds at least the bytes of one grab
\* of the source that is open, and after every grab that returned true there
\* is a view for each of its images.
C16_BufferFitsSource ==
    last.op = "Grab" =>
        /\ buffer_size >= SizeBytes(video_uri)
        /\ last.d = 1 => num_views >= NumStreams(video_uri)

-----------------------------------------------------------------------------
\* CloseInput has released a seekable source and nothing was opened since:
\* video holds no source and video_playback still points into the released one.
ClosedSeekable(uri, pb) == uri = "none" /\ pb = "released"

\* C17 as stated, for a seekable source: once CloseInput has released it and
\* until the next OpenInput, no tick calls Grab and no Skip calls Seek through
\* its playback interface.
C17_NoUseAfterClose ==
    /\ ~(last.op = "Grab" /\ ClosedSeekable(last.vuri, last.pb))
    /\ ~(last.op = "Skip" /\ ClosedSeekable(last.vuri, last.pb))

-----------------------------------------------------------------------------
\* C18: on a file opened once, whenever control_mutex is free and no slider
\* change waits to be served, the source reads frame current_frame + 1 next and
\* current_frame lies in -1 .. total_frames - 1.
C18_PositionConsistent ==
    (pc["caller"] # "ctor" /\ lock = "free" /\ ~gui_changed)
        => /\ current_frame + 1 = video_pos
           /\ current_frame >= -1
           /\ current_frame <= GetTotalFrames(video_uri) - 1

\* The grabs have reached the last frame of the file, with the slider shown and
\* nothing pending.
C18_Witness ==
    /\ lock = "free"
    /\ ~gui_changed
    /\ slider_shown
    /\ last.op = "Grab"
    /\ last.d = 1
    /\ current_frame = GetTotalFrames(video_uri) - 1
    /\ video_pos = GetTotalFrames(video_uri)

-----------------------------------------------------------------------------
\* No thread waits for the mutex while it holds it, and the render thread holds
\* it only in the locked block of the tick or in an operation of its own.
NoSelfWait ==
    /\ \A t \in Threads : ~(pc[t] = "blocked" /\ lock = t)
    /\ lock = "render" <=> pc["render"] \in {"grab", "in_op"}
    /\ lock = "caller" <=> pc["caller"] = "in_op"

\* C19: the render thread calls the key-shortcut operations only outside the
\* locked block of the tick, so no thread waits for a mutex it holds; and every
\* thread that waits for the mutex, in an operation or in the tick, gets it, and
\* every thread that holds it releases it.
C19_LockNeverDeadlocks ==
    /\ []NoSelfWait
    /\ \A t \in Threads : (pc[t] = "blocked") ~> (pc[t] = "in_op")
    /\ \A t \in Threads : (pc[t] = "in_op") ~> (pc[t] = Home(t))
    /\ (pc["render"] = "wait_lock") ~> (pc["render"] = "grab")
    /\ (pc["render"] = "grab") ~> (pc["render"] = "events")

\* A key shortcut on the render thread waits for the mutex while an operation
\* of the caller holds it.
C19_Witness ==
    /\ pc["render"] = "blocked"
    /\ lock = "caller"
    /\ pc["caller"] = "in_op"

====
